---- MODULE Spec2Model ----
(***************************************************************************)
(* Model of the RAG chatbot backend: the request pipeline of               *)
(* ChatController.query (analyze -> embed -> vector search -> re-rank ->   *)
(* generate), the PythonService client wrappers it calls, the              *)
(* VectorStoreService collection handling, and DocumentController.getStats.*)
(* Every await of the source is one step: an action is the continuation    *)
(* that runs when the awaited call settles, up to the next await.          *)
(***************************************************************************)
EXTENDS Integers, Sequences, FiniteSets, TLC

(* ------------------------------ bounds -------------------------------- *)
MaxDocs == 4

\* most chunks one uploaded file is split into
MaxChunks == 2

\* The /query request that is followed.  The getStats request and the
\* constructor's initializeCollection() run concurrently with it and make
\* the same calls on the shared collection handle.
Reqs == {1}

(* ------------------------- program constants -------------------------- *)
AnalyzeTimeoutMs  == 5000
EmbedTimeoutMs    == 10000
RerankTimeoutMs   == 10000
GenerateTimeoutMs == 60000
OverFetchCap      == 15
SourcesShown      == 3
DefaultTopK       == 5
NoDeadline        == 0
EmbedTextsTimeoutMs == 30000
ProcessTimeoutMs  == 120000
CompareOldN       == 5
CompareNewN       == 10
CompareTopK       == 5

VARIABLES
    pc,            \* per request: the await the handler is suspended at
    body,          \* per request: req.body.query
    analysis,      \* per request: queryAnalysis
    embedRes,      \* per request: result of embedQuery
    idxN,          \* per request: nResults passed to queryWithEmbedding
    initial,       \* per request: initialResults
    rrTopK,        \* per request: topK passed to rerank
    reranked,      \* per request: rerankedResults
    genCtx,        \* per request: contextDocs passed to generate
    sent,          \* per request: the responses written to res, in order
    trace,         \* per request: calls made and results received, in order
    deadline,      \* per request: timeout (ms) of the call in flight, 0 = none
    isInitialized, \* VectorStoreService.isInitialized
    collection,    \* VectorStoreService.collection (0 = undefined)
    collExists,    \* the index: does the named collection exist
    collId,        \* the index: identity of the current collection
    docs,          \* the index: stored documents, nearest first
    ctorPc,        \* the initializeCollection() started by the constructor
    statsPc,       \* the getStats request
    statsSent,     \* responses written by getStats
    statsFailed,   \* a ChromaDB call made for getStats has failed
    statsColl,     \* getCollectionStats: the local `collection` (0 = none)
    probe,         \* two invocations of analyzeQuery on one query
    cmp,           \* the compareRetrieval request
    upload,        \* the uploadDocument request (addDocuments)
    clear          \* the clearKnowledgeBase request (clearCollection)

vars == <<pc, body, analysis, embedRes, idxN, initial, rrTopK, reranked,
          genCtx, sent, trace, deadline, isInitialized, collection,
          collExists, collId, docs, ctorPc, statsPc, statsSent, statsFailed,
          statsColl, probe, cmp, upload, clear>>

reqVars == <<pc, body, analysis, embedRes, idxN, initial, rrTopK, reranked,
             genCtx, sent, trace, deadline>>
storeVars == <<isInitialized, collection, collExists, collId, docs>>
statsVars == <<statsPc, statsSent, statsFailed, statsColl>>
auxVars == <<probe, cmp, upload, clear>>

(* ------------------------------ helpers ------------------------------- *)
Min(a, b) == IF a < b THEN a ELSE b

Take(s, n) == SubSeq(s, 1, Min(n, Len(s)))

Reverse(s) == [i \in 1..Len(s) |-> s[Len(s) + 1 - i]]

(* --------------------------- input domains ---------------------------- *)
\* req.body.query as the client may send it: missing, a number, a string.
\* A string is the sequence of its characters.
Bodies ==
    { [type |-> "undefined", val |-> <<>>],
      [type |-> "number",    val |-> <<"7">>],
      [type |-> "string",    val |-> <<>>],
      [type |-> "string",    val |-> <<"a", " ", "b">>] }

NoBody == [type |-> "undefined", val |-> <<>>]

\* The `error` field of a {success: false} reply ("" = absent).
ErrFields == {"", "upstream error"}

\* What the analysis collaborator may put in data.suggested_params.top_k.
TopKs == {1, 8, 12}

NoAnalysis ==
    [query_type |-> "", top_k |-> 0, expand_query |-> FALSE,
     query_length |-> 0, complexity |-> ""]

\* data of a successful /analyze-query reply
AnalysisReplies ==
    { [query_type |-> "faculty", top_k |-> k, expand_query |-> (k = 5),
       query_length |-> 2, complexity |-> "simple"] : k \in TopKs }

\* Settled outcome of an axios call, other than its timeout.
AxiosFailures ==
    { [kind |-> "fail", error |-> e] : e \in ErrFields } \cup
    { [kind |-> "neterr", error |-> ""] }

\* Settled outcome of a ChromaDB client call.
ChromaOutcomes == {"ok", "error"}

ChromaErrorMessage == "chroma error"
NetworkErrorMessage == "Network Error"

TimeoutMessage(ms) ==
    CASE ms = AnalyzeTimeoutMs  -> "timeout of 5000ms exceeded"
      [] ms = EmbedTimeoutMs    -> "timeout of 10000ms exceeded"
      [] ms = GenerateTimeoutMs -> "timeout of 60000ms exceeded"
      [] ms = EmbedTextsTimeoutMs -> "timeout of 30000ms exceeded"
      [] ms = ProcessTimeoutMs  -> "timeout of 120000ms exceeded"
      [] OTHER                  -> "timeout exceeded"

(* ------------------------ PythonService wrappers ----------------------- *)
\* variant: the reply's error text is dropped, only the fixed text is thrown
ThrownMessageNoDetail(o, fallback) == fallback

\* The message of the Error the wrapper's try block throws for a failed call:
\* `throw new Error(response.data.error || fallback)`, or the axios error.
ThrownMessage(o, fallback) ==
    IF o.kind = "fail"
    THEN (IF o.error = "" THEN fallback ELSE o.error)
    ELSE NetworkErrorMessage

\* query.split(' ').length
SplitLength(q) == Len(SelectSeq(q, LAMBDA c : c = " ")) + 1

\* variant: a fallback with a different top_k
DefaultAnalysisTop3(q) ==
    [query_type |-> "general", top_k |-> 3, expand_query |-> TRUE,
     query_length |-> SplitLength(q), complexity |-> "medium"]

\* the fallback object of analyzeQuery's catch block
DefaultAnalysis(q) ==
    [query_type |-> "general", top_k |-> DefaultTopK, expand_query |-> TRUE,
     query_length |-> SplitLength(q), complexity |-> "medium"]

\* analyzeQuery: the reply's data on success, the fallback on any failure.
analyzeQuery(q, o) ==
    IF o.kind = "ok" THEN o.data ELSE DefaultAnalysis(q)

\* data of a successful /embed-query reply for (query, expand)
EmbedReply(q, expand) ==
    [embedding |-> "vec", original_query |-> q,
     expanded_query |-> IF expand THEN q \o <<"+">> ELSE q]

NoEmbed == [embedding |-> "", original_query |-> <<>>, expanded_query |-> <<>>]

(* ------------------------- VectorStoreService -------------------------- *)
\* ensureInitialized inside getCollection: which call is awaited first
GetCollectionEntry(init) == IF init THEN "getcoll" ELSE "init"

\* distance the index reports for a stored document
DistOf(d) == d - 1

\* metadata stored with a document
MetaOf(d) == [source |-> "knowledge_base", index |-> d]

\* collection.query({queryEmbeddings, nResults}): the nResults nearest
IndexReply(store, n) ==
    [i \in 1..Min(n, Len(store)) |->
        [document |-> store[i], metadata |-> MetaOf(store[i]),
         distance |-> DistOf(store[i])]]

\* variant: the metadata is read at index 0 for every candidate
ToSearchResultsFirstMeta(reply) ==
    [i \in 1..Len(reply) |->
        [text |-> reply[i].document, metadata |-> reply[1].metadata,
         score |-> reply[i].distance]]

\* queryWithEmbedding's mapping of the reply to SearchResult[]
ToSearchResults(reply) ==
    [i \in 1..Len(reply) |->
        [text |-> reply[i].document, metadata |-> reply[i].metadata,
         score |-> reply[i].distance]]

(* --------------------------- ChatController ---------------------------- *)
\* `!query || typeof query !== 'string'`
Falsy(b) == b.type = "undefined" \/ (b.type = "string" /\ b.val = <<>>)

\* variant: only `!query` is tested
InvalidQueryFalsyOnly(b) == Falsy(b)

InvalidQuery(b) == Falsy(b) \/ b.type # "string"

\* variant: the over-fetch without its cap
OverFetchUncapped(topK) == topK * 2

\* Math.min(topK * 2, 15)
OverFetch(topK) == Min(topK * 2, OverFetchCap)

\* variant: the empty-result check is missing
NoKnowledgeNever(results) == FALSE

\* `initialResults.length === 0`
NoKnowledge(results) == Len(results) = 0

(* The hybrid re-ranker behind /rerank.  Component scores are in 0..100 and
   the weights are percentages, so final_score is in 0..10000. *)
WeightVector   == 40
WeightKeyword  == 25
WeightExact    == 15
WeightLength   == 10
WeightPosition == 10

\* vector component: the similarity derived from the score the candidate
\* arrives with (a distance), clamped to 0..100
VectorComponent(score) == IF 10 * score > 100 THEN 0 ELSE 100 - 10 * score

\* keyword overlap of the query with the passage: passage 3 holds every
\* query term, the others none
KeywordComponent(q, text) == IF text = 3 THEN 100 ELSE 0

\* exact-phrase match: passage 3 contains the query verbatim
ExactComponent(q, text) == IF text = 3 THEN 100 ELSE 0

\* length score: passage 2 has nearly the target length, the others are short
LengthComponent(text) == IF text = 2 THEN 90 ELSE 0

\* position component for the 0-based original rank: 1 / (1 + position)
PositionComponent(pos) == 100 \div (1 + pos)

FinalScore(q, cand, pos) ==
      WeightVector * VectorComponent(cand.score)
    + WeightKeyword * KeywordComponent(q, cand.text)
    + WeightExact * ExactComponent(q, cand.text)
    + WeightLength * LengthComponent(cand.text)
    + WeightPosition * PositionComponent(pos)

\* rerank(query, candidates, topK): score every candidate, order by
\* final_score descending with ties by original position, keep topK
Rerank(q, cands, topK) ==
    LET fs(i) == FinalScore(q, cands[i], i - 1)
        before(i, j) == fs(i) > fs(j) \/ (fs(i) = fs(j) /\ i < j)
        rank(i) == 1 + Cardinality({j \in 1..Len(cands) : before(j, i)})
        at(k) == CHOOSE i \in 1..Len(cands) : rank(i) = k
    IN  [k \in 1..Min(topK, Len(cands)) |->
            [text |-> cands[at(k)].text, metadata |-> cands[at(k)].metadata,
             score |-> cands[at(k)].score, final_score |-> fs(at(k))]]

\* data.results of a successful /rerank reply
RerankReplies(q, cands, topK) == { Rerank(q, cands, topK) }

\* variant: the sources report the vector score instead of final_score
ToSourcesVectorScore(results) ==
    [i \in 1..Min(SourcesShown, Len(results)) |->
        [text |-> results[i].text, metadata |-> results[i].metadata,
         score |-> results[i].score]]

\* rerankedResults.slice(0, 3).map(...)
ToSources(results) ==
    [i \in 1..Min(SourcesShown, Len(results)) |->
        [text |-> results[i].text, metadata |-> results[i].metadata,
         score |-> results[i].final_score]]

BadRequest ==
    [status |-> 400, error |-> "Query is required and must be a string",
     details |-> "", answer |-> "", sources |-> <<>>, hasSources |-> FALSE]

CannedAnswer == "I don't have any information in my knowledge base yet."

NoKnowledgeResponse ==
    [status |-> 200, error |-> "", details |-> "", answer |-> CannedAnswer,
     sources |-> <<>>, hasSources |-> TRUE]

GeneratedAnswer == "generated answer"

AnswerResponse(text, results) ==
    [status |-> 200, error |-> "", details |-> "", answer |-> text,
     sources |-> ToSources(results), hasSources |-> TRUE]

FailureResponse(msg) ==
    [status |-> 500, error |-> "Failed to process query", details |-> msg,
     answer |-> "", sources |-> <<>>, hasSources |-> FALSE]

(* ------------------- initial values of the other requests ------------- *)
NoProbe ==
    [phase |-> 0, q |-> <<>>, data |-> NoAnalysis,
     first |-> NoAnalysis, second |-> NoAnalysis]

CmpIdle ==
    [pc |-> "idle", phase |-> "old", query |-> <<>>, oldResults |-> <<>>,
     newInitial |-> <<>>, newReranked |-> <<>>, sent |-> <<>>, trace |-> <<>>,
     deadline |-> NoDeadline, coll |-> 0]

UploadIdle ==
    [pc |-> "idle", kind |-> "upload", items |-> 0, coll |-> 0, sent |-> <<>>,
     deadline |-> NoDeadline]

ClearIdle == [pc |-> "idle", sent |-> <<>>]

(* ------------------------------- Init ---------------------------------- *)
\* The index is persistent: at start-up the named collection may or may not
\* exist and may hold documents.  The constructor has started
\* initializeCollection() without awaiting it.
Init ==
    /\ pc = [r \in Reqs |-> "idle"]
    /\ body = [r \in Reqs |-> NoBody]
    /\ analysis = [r \in Reqs |-> NoAnalysis]
    /\ embedRes = [r \in Reqs |-> NoEmbed]
    /\ idxN = [r \in Reqs |-> 0]
    /\ initial = [r \in Reqs |-> <<>>]
    /\ rrTopK = [r \in Reqs |-> 0]
    /\ reranked = [r \in Reqs |-> <<>>]
    /\ genCtx = [r \in Reqs |-> <<>>]
    /\ sent = [r \in Reqs |-> <<>>]
    /\ trace = [r \in Reqs |-> <<>>]
    /\ deadline = [r \in Reqs |-> NoDeadline]
    /\ isInitialized = FALSE
    /\ collection = 0
    /\ collExists \in BOOLEAN
    /\ collId = 1
    /\ \E n \in 0..MaxDocs : docs = [i \in 1..n |-> i]
    /\ (~collExists => docs = <<>>)
    /\ ctorPc = "init"
    /\ statsPc = "idle"
    /\ statsSent = <<>>
    /\ statsFailed = FALSE
    /\ statsColl = 0
    /\ probe = NoProbe
    /\ cmp = CmpIdle
    /\ upload = UploadIdle
    /\ clear = ClearIdle

\* The process is running.  The promise of the constructor's
\* initializeCollection() has no handler: when it rejects, the runtime either
\* only warns or ends the process, depending on its version and flags.
Alive == ctorPc # "crashed"

(* ----------------- shared steps of the request handler ----------------- *)
\* entries of trace: a call started, a call that returned to the handler,
\* a call whose failure was thrown to the handler.  kind/error are the
\* collaborator's outcome ("ok", "fail", "neterr", "timeout", "error").
Call(fn) == [ev |-> "call", fn |-> fn, kind |-> "", error |-> ""]
Ret(fn, kind, error) == [ev |-> "ret", fn |-> fn, kind |-> kind, error |-> error]
Throw(fn, kind, error) == [ev |-> "throw", fn |-> fn, kind |-> kind, error |-> error]

\* the catch block of ChatController.query: one 500 response, handler ends
Fail(r, fn, kind, error, msg) ==
    /\ pc' = [pc EXCEPT ![r] = "done"]
    /\ sent' = [sent EXCEPT ![r] = Append(@, FailureResponse(msg))]
    /\ trace' = [trace EXCEPT ![r] = Append(@, Throw(fn, kind, error))]
    /\ deadline' = [deadline EXCEPT ![r] = NoDeadline]

\* variant: the collection is dropped and created anew on every fetch
GotCollectionFresh ==
    /\ collExists' = TRUE
    /\ collId' = collId + 1
    /\ docs' = <<>>
    /\ collection' = collId'

\* client.getOrCreateCollection succeeded: the collection exists afterwards
\* (created empty when it did not) and the returned handle is stored
GotCollection ==
    /\ collExists' = TRUE
    /\ collId' = IF collExists THEN collId ELSE collId + 1
    /\ docs' = IF collExists THEN docs ELSE <<>>
    /\ collection' = collId'

(* ------------------ ChatController.query, step by step ----------------- *)
\* variant: embedQuery is started together with analyzeQuery
QuerySpeculative(r, b) ==
    /\ Alive
    /\ pc[r] = "idle"
    /\ body' = [body EXCEPT ![r] = b]
    /\ IF InvalidQuery(b)
       THEN /\ sent' = [sent EXCEPT ![r] = Append(@, BadRequest)]
            /\ pc' = [pc EXCEPT ![r] = "done"]
            /\ UNCHANGED <<trace, deadline>>
       ELSE /\ pc' = [pc EXCEPT ![r] = "analyze"]
            /\ trace' = [trace EXCEPT ![r] =
                  @ \o <<Call("analyzeQuery"), Call("embedQuery")>>]
            /\ deadline' = [deadline EXCEPT ![r] = AnalyzeTimeoutMs]
            /\ UNCHANGED sent
    /\ UNCHANGED <<analysis, embedRes, idxN, initial, rrTopK, reranked, genCtx>>
    /\ UNCHANGED <<storeVars, ctorPc, statsVars, auxVars>>

\* entry: validation, then `await pythonService.analyzeQuery(query)`
Query(r, b) ==
    /\ Alive
    /\ pc[r] = "idle"
    /\ body' = [body EXCEPT ![r] = b]
    /\ IF InvalidQuery(b)
       THEN /\ sent' = [sent EXCEPT ![r] = Append(@, BadRequest)]
            /\ pc' = [pc EXCEPT ![r] = "done"]
            /\ UNCHANGED <<trace, deadline>>
       ELSE /\ pc' = [pc EXCEPT ![r] = "analyze"]
            /\ trace' = [trace EXCEPT ![r] = Append(@, Call("analyzeQuery"))]
            /\ deadline' = [deadline EXCEPT ![r] = AnalyzeTimeoutMs]
            /\ UNCHANGED sent
    /\ UNCHANGED <<analysis, embedRes, idxN, initial, rrTopK, reranked, genCtx>>
    /\ UNCHANGED <<storeVars, ctorPc, statsVars, auxVars>>

\* variant: analyzeQuery rethrows instead of falling back
AfterAnalyzeRethrow(r, o) ==
    IF o.kind = "ok"
    THEN /\ analysis' = [analysis EXCEPT ![r] = analyzeQuery(body[r].val, o)]
         /\ pc' = [pc EXCEPT ![r] = "embed"]
         /\ trace' = [trace EXCEPT ![r] =
               @ \o <<Ret("analyzeQuery", o.kind, o.error), Call("embedQuery")>>]
         /\ deadline' = [deadline EXCEPT ![r] = EmbedTimeoutMs]
         /\ UNCHANGED <<body, embedRes, idxN, initial, rrTopK, reranked, genCtx, sent>>
         /\ UNCHANGED <<storeVars, ctorPc, statsVars, auxVars>>
    ELSE /\ Fail(r, "analyzeQuery", o.kind, o.error, "Query analysis failed")
         /\ UNCHANGED <<body, analysis, embedRes, idxN, initial, rrTopK, reranked, genCtx>>
         /\ UNCHANGED <<storeVars, ctorPc, statsVars, auxVars>>

\* analyzeQuery has settled with outcome o; the handler reads top_k and
\* expand_query and awaits embedQuery(query, expandQuery)
AfterAnalyze(r, o) ==
    /\ analysis' = [analysis EXCEPT ![r] = analyzeQuery(body[r].val, o)]
    /\ pc' = [pc EXCEPT ![r] = "embed"]
    /\ trace' = [trace EXCEPT ![r] = @ \o <<Ret("analyzeQuery", o.kind, o.error), Call("embedQuery")>>]
    /\ deadline' = [deadline EXCEPT ![r] = EmbedTimeoutMs]
    /\ UNCHANGED <<body, embedRes, idxN, initial, rrTopK, reranked, genCtx, sent>>
    /\ UNCHANGED <<storeVars, ctorPc, statsVars, auxVars>>

AnalyzeReturn(r, o) ==
    /\ Alive
    /\ pc[r] = "analyze"
    /\ AfterAnalyze(r, o)

AnalyzeTimeout(r) ==
    /\ Alive
    /\ pc[r] = "analyze"
    /\ deadline[r] > 0
    /\ AfterAnalyze(r, [kind |-> "timeout", error |-> ""])

\* variant: topK is kept in a field of the controller, which holds the
\* value of the request that arrived last
EmbedReturnSharedTopK(r) ==
    /\ Alive
    /\ pc[r] = "embed"
    /\ embedRes' = [embedRes EXCEPT ![r] =
                      EmbedReply(body[r].val, analysis[r].expand_query)]
    /\ idxN' = [idxN EXCEPT ![r] =
          OverFetch(analysis[CHOOSE s \in DOMAIN pc :
                                 \A t \in DOMAIN pc : s >= t].top_k)]
    /\ pc' = [pc EXCEPT ![r] = GetCollectionEntry(isInitialized)]
    /\ trace' = [trace EXCEPT ![r] = @ \o
          <<Ret("embedQuery", "ok", ""),
            Call(IF isInitialized THEN "getOrCreateCollection"
                                  ELSE "initializeCollection")>>]
    /\ deadline' = [deadline EXCEPT ![r] = NoDeadline]
    /\ UNCHANGED <<body, analysis, initial, rrTopK, reranked, genCtx, sent>>
    /\ UNCHANGED <<storeVars, ctorPc, statsVars, auxVars>>

\* embedQuery resolved: queryWithEmbedding(embedding, min(topK*2, 15)) is
\* entered and suspends in getCollection
EmbedReturn(r) ==
    /\ Alive
    /\ pc[r] = "embed"
    /\ embedRes' = [embedRes EXCEPT ![r] =
                      EmbedReply(body[r].val, analysis[r].expand_query)]
    /\ idxN' = [idxN EXCEPT ![r] = OverFetch(analysis[r].top_k)]
    /\ pc' = [pc EXCEPT ![r] = GetCollectionEntry(isInitialized)]
    /\ trace' = [trace EXCEPT ![r] = @ \o
          <<Ret("embedQuery", "ok", ""),
            Call(IF isInitialized THEN "getOrCreateCollection"
                                  ELSE "initializeCollection")>>]
    /\ deadline' = [deadline EXCEPT ![r] = NoDeadline]
    /\ UNCHANGED <<body, analysis, initial, rrTopK, reranked, genCtx, sent>>
    /\ UNCHANGED <<storeVars, ctorPc, statsVars, auxVars>>

\* variant: a failed embedQuery is re-issued once before giving up
EmbedFailRetry(r, o) ==
    /\ Alive
    /\ pc[r] = "embed"
    /\ IF Len(SelectSeq(trace[r], LAMBDA e : e.ev = "call" /\ e.fn = "embedQuery")) < 2
       THEN /\ trace' = [trace EXCEPT ![r] =
                  @ \o <<Throw("embedQuery", o.kind, o.error), Call("embedQuery")>>]
            /\ UNCHANGED <<pc, sent, deadline>>
       ELSE Fail(r, "embedQuery", o.kind, o.error,
                 ThrownMessage(o, "Query embedding failed"))
    /\ UNCHANGED <<body, analysis, embedRes, idxN, initial, rrTopK, reranked, genCtx>>
    /\ UNCHANGED <<storeVars, ctorPc, statsVars, auxVars>>

EmbedFail(r, o) ==
    /\ Alive
    /\ pc[r] = "embed"
    /\ Fail(r, "embedQuery", o.kind, o.error, ThrownMessage(o, "Query embedding failed"))
    /\ UNCHANGED <<body, analysis, embedRes, idxN, initial, rrTopK, reranked, genCtx>>
    /\ UNCHANGED <<storeVars, ctorPc, statsVars, auxVars>>

EmbedTimeout(r) ==
    /\ Alive
    /\ pc[r] = "embed"
    /\ deadline[r] > 0
    /\ Fail(r, "embedQuery", "timeout", "", TimeoutMessage(deadline[r]))
    /\ UNCHANGED <<body, analysis, embedRes, idxN, initial, rrTopK, reranked, genCtx>>
    /\ UNCHANGED <<storeVars, ctorPc, statsVars, auxVars>>

\* variant: isInitialized is set whatever the outcome of the call
InitReturnFlagAlways(r, o) ==
    /\ Alive
    /\ pc[r] = "init"
    /\ IF o = "ok"
       THEN /\ GotCollection
            /\ isInitialized' = TRUE
            /\ pc' = [pc EXCEPT ![r] = "getcoll"]
            /\ trace' = [trace EXCEPT ![r] = @ \o
                  <<Ret("initializeCollection", "ok", ""), Call("getOrCreateCollection")>>]
            /\ UNCHANGED <<sent, deadline>>
       ELSE /\ Fail(r, "initializeCollection", "error", ChromaErrorMessage, ChromaErrorMessage)
            /\ isInitialized' = TRUE
            /\ UNCHANGED <<collection, collExists, collId, docs>>
    /\ UNCHANGED <<body, analysis, embedRes, idxN, initial, rrTopK, reranked, genCtx>>
    /\ UNCHANGED <<ctorPc, statsVars, auxVars>>

\* ensureInitialized -> initializeCollection settled
InitReturn(r, o) ==
    /\ Alive
    /\ pc[r] = "init"
    /\ IF o = "ok"
       THEN /\ GotCollection
            /\ isInitialized' = TRUE
            /\ pc' = [pc EXCEPT ![r] = "getcoll"]
            /\ trace' = [trace EXCEPT ![r] = @ \o
                  <<Ret("initializeCollection", "ok", ""), Call("getOrCreateCollection")>>]
            /\ UNCHANGED <<sent, deadline>>
       ELSE /\ Fail(r, "initializeCollection", "error", ChromaErrorMessage, ChromaErrorMessage)
            /\ UNCHANGED storeVars
    /\ UNCHANGED <<body, analysis, embedRes, idxN, initial, rrTopK, reranked, genCtx>>
    /\ UNCHANGED <<ctorPc, statsVars, auxVars>>

\* getCollection's own getOrCreateCollection settled; on success
\* collection.query({queryEmbeddings, nResults}) is awaited
GetCollReturn(r, o) ==
    /\ Alive
    /\ pc[r] = "getcoll"
    /\ IF o = "ok"
       THEN /\ GotCollection
            /\ UNCHANGED isInitialized
            /\ pc' = [pc EXCEPT ![r] = "index"]
            /\ trace' = [trace EXCEPT ![r] = @ \o
                  <<Ret("getOrCreateCollection", "ok", ""), Call("indexQuery")>>]
            /\ UNCHANGED <<sent, deadline>>
       ELSE /\ Fail(r, "getOrCreateCollection", "error", ChromaErrorMessage, ChromaErrorMessage)
            /\ UNCHANGED storeVars
    /\ UNCHANGED <<body, analysis, embedRes, idxN, initial, rrTopK, reranked, genCtx>>
    /\ UNCHANGED <<ctorPc, statsVars, auxVars>>

\* variant: rerank is given the over-fetch size instead of topK
IndexReturnOverFetchTopK(r) ==
    /\ Alive
    /\ pc[r] = "index"
    /\ LET results == ToSearchResults(IndexReply(docs, idxN[r])) IN
       /\ initial' = [initial EXCEPT ![r] = results]
       /\ IF NoKnowledge(results)
          THEN /\ sent' = [sent EXCEPT ![r] = Append(@, NoKnowledgeResponse)]
               /\ pc' = [pc EXCEPT ![r] = "done"]
               /\ trace' = [trace EXCEPT ![r] = Append(@, Ret("indexQuery", "ok", ""))]
               /\ UNCHANGED <<rrTopK, deadline>>
          ELSE /\ rrTopK' = [rrTopK EXCEPT ![r] = idxN[r]]
               /\ pc' = [pc EXCEPT ![r] = "rerank"]
               /\ trace' = [trace EXCEPT ![r] = @ \o
                     <<Ret("indexQuery", "ok", ""), Call("rerank")>>]
               /\ deadline' = [deadline EXCEPT ![r] = RerankTimeoutMs]
               /\ UNCHANGED sent
    /\ UNCHANGED <<body, analysis, embedRes, idxN, reranked, genCtx>>
    /\ UNCHANGED <<storeVars, ctorPc, statsVars, auxVars>>

\* collection.query resolved: map to SearchResult[]; an empty list ends the
\* request with the canned answer, otherwise rerank(query, results, topK)
IndexReturn(r) ==
    /\ Alive
    /\ pc[r] = "index"
    /\ LET results == ToSearchResults(IndexReply(docs, idxN[r])) IN
       /\ initial' = [initial EXCEPT ![r] = results]
       /\ IF NoKnowledge(results)
          THEN /\ sent' = [sent EXCEPT ![r] = Append(@, NoKnowledgeResponse)]
               /\ pc' = [pc EXCEPT ![r] = "done"]
               /\ trace' = [trace EXCEPT ![r] = Append(@, Ret("indexQuery", "ok", ""))]
               /\ UNCHANGED <<rrTopK, deadline>>
          ELSE /\ rrTopK' = [rrTopK EXCEPT ![r] = analysis[r].top_k]
               /\ pc' = [pc EXCEPT ![r] = "rerank"]
               /\ trace' = [trace EXCEPT ![r] = @ \o
                     <<Ret("indexQuery", "ok", ""), Call("rerank")>>]
               /\ deadline' = [deadline EXCEPT ![r] = RerankTimeoutMs]
               /\ UNCHANGED sent
    /\ UNCHANGED <<body, analysis, embedRes, idxN, reranked, genCtx>>
    /\ UNCHANGED <<storeVars, ctorPc, statsVars, auxVars>>

IndexFail(r) ==
    /\ Alive
    /\ pc[r] = "index"
    /\ Fail(r, "indexQuery", "error", ChromaErrorMessage, ChromaErrorMessage)
    /\ UNCHANGED <<body, analysis, embedRes, idxN, initial, rrTopK, reranked, genCtx>>
    /\ UNCHANGED <<storeVars, ctorPc, statsVars, auxVars>>

\* rerank resolved with `results`: generate(query, rerankedResults, true)
RerankReturn(r, results) ==
    /\ Alive
    /\ pc[r] = "rerank"
    /\ reranked' = [reranked EXCEPT ![r] = results]
    /\ genCtx' = [genCtx EXCEPT ![r] = results]
    /\ pc' = [pc EXCEPT ![r] = "generate"]
    /\ trace' = [trace EXCEPT ![r] = @ \o <<Ret("rerank", "ok", ""), Call("generate")>>]
    /\ deadline' = [deadline EXCEPT ![r] = GenerateTimeoutMs]
    /\ UNCHANGED <<body, analysis, embedRes, idxN, initial, rrTopK, sent>>
    /\ UNCHANGED <<storeVars, ctorPc, statsVars, auxVars>>

RerankFail(r, o) ==
    /\ Alive
    /\ pc[r] = "rerank"
    /\ Fail(r, "rerank", o.kind, o.error, ThrownMessage(o, "Re-ranking failed"))
    /\ UNCHANGED <<body, analysis, embedRes, idxN, initial, rrTopK, reranked, genCtx>>
    /\ UNCHANGED <<storeVars, ctorPc, statsVars, auxVars>>

RerankTimeout(r) ==
    /\ Alive
    /\ pc[r] = "rerank"
    /\ deadline[r] > 0
    /\ Fail(r, "rerank", "timeout", "", TimeoutMessage(deadline[r]))
    /\ UNCHANGED <<body, analysis, embedRes, idxN, initial, rrTopK, reranked, genCtx>>
    /\ UNCHANGED <<storeVars, ctorPc, statsVars, auxVars>>

\* variant: the answer is written and the catch block then writes a 500 too
GenerateReturnThenCatch(r) ==
    /\ Alive
    /\ pc[r] = "generate"
    /\ sent' = [sent EXCEPT ![r] =
                  @ \o <<AnswerResponse(GeneratedAnswer, reranked[r]),
                         FailureResponse("Unknown error")>>]
    /\ pc' = [pc EXCEPT ![r] = "done"]
    /\ trace' = [trace EXCEPT ![r] = Append(@, Ret("generate", "ok", ""))]
    /\ deadline' = [deadline EXCEPT ![r] = NoDeadline]
    /\ UNCHANGED <<body, analysis, embedRes, idxN, initial, rrTopK, reranked, genCtx>>
    /\ UNCHANGED <<storeVars, ctorPc, statsVars, auxVars>>

\* generate resolved: the answer with the first three re-ranked results
GenerateReturn(r) ==
    /\ Alive
    /\ pc[r] = "generate"
    /\ sent' = [sent EXCEPT ![r] =
                  Append(@, AnswerResponse(GeneratedAnswer, reranked[r]))]
    /\ pc' = [pc EXCEPT ![r] = "done"]
    /\ trace' = [trace EXCEPT ![r] = Append(@, Ret("generate", "ok", ""))]
    /\ deadline' = [deadline EXCEPT ![r] = NoDeadline]
    /\ UNCHANGED <<body, analysis, embedRes, idxN, initial, rrTopK, reranked, genCtx>>
    /\ UNCHANGED <<storeVars, ctorPc, statsVars, auxVars>>

GenerateFail(r, o) ==
    /\ Alive
    /\ pc[r] = "generate"
    /\ Fail(r, "generate", o.kind, o.error, ThrownMessage(o, "Generation failed"))
    /\ UNCHANGED <<body, analysis, embedRes, idxN, initial, rrTopK, reranked, genCtx>>
    /\ UNCHANGED <<storeVars, ctorPc, statsVars, auxVars>>

GenerateTimeout(r) ==
    /\ Alive
    /\ pc[r] = "generate"
    /\ deadline[r] > 0
    /\ Fail(r, "generate", "timeout", "", TimeoutMessage(deadline[r]))
    /\ UNCHANGED <<body, analysis, embedRes, idxN, initial, rrTopK, reranked, genCtx>>
    /\ UNCHANGED <<storeVars, ctorPc, statsVars, auxVars>>

(* ------------- the initializeCollection() of the constructor ---------- *)
\* variant: start-up drops the collection and creates it anew
CtorInitReturnReset(o) ==
    /\ Alive
    /\ ctorPc = "init"
    /\ IF o = "ok"
       THEN /\ GotCollectionFresh
            /\ isInitialized' = TRUE
            /\ ctorPc' = "ready"
       ELSE /\ ctorPc' \in {"failed", "crashed"}
            /\ UNCHANGED storeVars
    /\ UNCHANGED <<reqVars, statsVars, auxVars>>

CtorInitReturn(o) ==
    /\ Alive
    /\ ctorPc = "init"
    /\ IF o = "ok"
       THEN /\ GotCollection
            /\ isInitialized' = TRUE
            /\ ctorPc' = "ready"
       ELSE /\ ctorPc' \in {"failed", "crashed"}
            /\ UNCHANGED storeVars
    /\ UNCHANGED <<reqVars, statsVars, auxVars>>

(* -------- DocumentController.getStats / getCollectionStats ------------ *)
\* getCollectionStats: {count} from collection.count(), and {count: 0} from
\* its catch block when getCollection or count() threw
getCollectionStats(ok, n) == IF ok THEN [count |-> n] ELSE [count |-> 0]

\* getStats: res.json({success: true, stats})
StatsResponse(stats) == [status |-> 200, success |-> TRUE, count |-> stats.count]

\* getCollectionStats threw nothing to getStats: it answers from the catch
StatsCaught ==
    /\ statsSent' = Append(statsSent, StatsResponse(getCollectionStats(FALSE, 0)))
    /\ statsFailed' = TRUE
    /\ statsPc' = "done"
    /\ UNCHANGED statsColl

GetStats ==
    /\ Alive
    /\ statsPc = "idle"
    /\ statsPc' = GetCollectionEntry(isInitialized)
    /\ UNCHANGED <<statsSent, statsFailed, statsColl>>
    /\ UNCHANGED <<reqVars, storeVars, ctorPc, auxVars>>

StatsInitReturn(o) ==
    /\ Alive
    /\ statsPc = "init"
    /\ IF o = "ok"
       THEN /\ GotCollection
            /\ isInitialized' = TRUE
            /\ statsPc' = "getcoll"
            /\ UNCHANGED <<statsSent, statsFailed, statsColl>>
       ELSE /\ StatsCaught
            /\ UNCHANGED storeVars
    /\ UNCHANGED <<reqVars, ctorPc, auxVars>>

StatsGetCollReturn(o) ==
    /\ Alive
    /\ statsPc = "getcoll"
    /\ IF o = "ok"
       THEN /\ GotCollection
            /\ UNCHANGED isInitialized
            /\ statsPc' = "count"
            /\ statsColl' = collId'
            /\ UNCHANGED <<statsSent, statsFailed>>
       ELSE /\ StatsCaught
            /\ UNCHANGED storeVars
    /\ UNCHANGED <<reqVars, ctorPc, auxVars>>

StatsCountReturn(o) ==
    /\ Alive
    /\ statsPc = "count"
    /\ IF o = "ok" /\ collExists /\ collId = statsColl
       THEN /\ statsSent' = Append(statsSent,
                   StatsResponse(getCollectionStats(TRUE, Len(docs))))
            /\ statsPc' = "done"
            /\ UNCHANGED <<statsFailed, statsColl>>
       ELSE StatsCaught
    /\ UNCHANGED <<reqVars, storeVars, ctorPc, auxVars>>

(* ------------------------------- Next ---------------------------------- *)
Next ==
    \/ \E r \in Reqs, b \in Bodies : Query(r, b)
    \/ \E r \in Reqs, d \in AnalysisReplies :
          AnalyzeReturn(r, [kind |-> "ok", error |-> "", data |-> d])
    \/ \E r \in Reqs, o \in AxiosFailures : AnalyzeReturn(r, o)
    \/ \E r \in Reqs : AnalyzeTimeout(r)
    \/ \E r \in Reqs : EmbedReturn(r)
    \/ \E r \in Reqs, o \in AxiosFailures : EmbedFail(r, o)
    \/ \E r \in Reqs : EmbedTimeout(r)
    \/ \E r \in Reqs, o \in ChromaOutcomes : InitReturn(r, o)
    \/ \E r \in Reqs, o \in ChromaOutcomes : GetCollReturn(r, o)
    \/ \E r \in Reqs : IndexReturn(r)
    \/ \E r \in Reqs : IndexFail(r)
    \/ \E r \in Reqs :
          \E res \in RerankReplies(body[r].val, initial[r], rrTopK[r]) :
             RerankReturn(r, res)
    \/ \E r \in Reqs, o \in AxiosFailures : RerankFail(r, o)
    \/ \E r \in Reqs : RerankTimeout(r)
    \/ \E r \in Reqs : GenerateReturn(r)
    \/ \E r \in Reqs, o \in AxiosFailures : GenerateFail(r, o)
    \/ \E r \in Reqs : GenerateTimeout(r)
    \/ \E o \in ChromaOutcomes : CtorInitReturn(o)
    \/ GetStats
    \/ \E o \in ChromaOutcomes : StatsInitReturn(o)
    \/ \E o \in ChromaOutcomes : StatsGetCollReturn(o)
    \/ \E o \in ChromaOutcomes : StatsCountReturn(o)

Spec == Init /\ [][Next]_vars

(* ---------------- two /query requests in flight together -------------- *)
ConcReqs == {1, 2}

\* the bodies, replies and failures the two requests are run with
ConcBodies == { b \in Bodies : b.type = "string" }

ConcAnalysisReplies == { d \in AnalysisReplies : d.top_k < 12 }

ConcFailures == { [kind |-> "fail", error |-> ""] }

ConcInit ==
    /\ pc = [r \in ConcReqs |-> "idle"]
    /\ body = [r \in ConcReqs |-> NoBody]
    /\ analysis = [r \in ConcReqs |-> NoAnalysis]
    /\ embedRes = [r \in ConcReqs |-> NoEmbed]
    /\ idxN = [r \in ConcReqs |-> 0]
    /\ initial = [r \in ConcReqs |-> <<>>]
    /\ rrTopK = [r \in ConcReqs |-> 0]
    /\ reranked = [r \in ConcReqs |-> <<>>]
    /\ genCtx = [r \in ConcReqs |-> <<>>]
    /\ sent = [r \in ConcReqs |-> <<>>]
    /\ trace = [r \in ConcReqs |-> <<>>]
    /\ deadline = [r \in ConcReqs |-> NoDeadline]
    /\ isInitialized = FALSE
    /\ collection = 0
    /\ collExists = TRUE
    /\ collId = 1
    /\ \E n \in {0, MaxDocs} : docs = [i \in 1..n |-> i]
    /\ ctorPc = "init"
    /\ statsPc = "idle"
    /\ statsSent = <<>>
    /\ statsFailed = FALSE
    /\ statsColl = 0
    /\ probe = NoProbe
    /\ cmp = CmpIdle
    /\ upload = UploadIdle
    /\ clear = ClearIdle

ConcNext ==
    \/ \E r \in ConcReqs, b \in ConcBodies : Query(r, b)
    \/ \E r \in ConcReqs, d \in ConcAnalysisReplies :
          AnalyzeReturn(r, [kind |-> "ok", error |-> "", data |-> d])
    \/ \E r \in ConcReqs, o \in ConcFailures : AnalyzeReturn(r, o)
    \/ \E r \in ConcReqs : AnalyzeTimeout(r)
    \/ \E r \in ConcReqs : EmbedReturn(r)
    \/ \E r \in ConcReqs, o \in ConcFailures : EmbedFail(r, o)
    \/ \E r \in ConcReqs : EmbedTimeout(r)
    \/ \E r \in ConcReqs, o \in ChromaOutcomes : InitReturn(r, o)
    \/ \E r \in ConcReqs, o \in ChromaOutcomes : GetCollReturn(r, o)
    \/ \E r \in ConcReqs : IndexReturn(r)
    \/ \E r \in ConcReqs : IndexFail(r)
    \/ \E r \in ConcReqs :
          \E res \in RerankReplies(body[r].val, initial[r], rrTopK[r]) :
             RerankReturn(r, res)
    \/ \E r \in ConcReqs, o \in ConcFailures : RerankFail(r, o)
    \/ \E r \in ConcReqs : RerankTimeout(r)
    \/ \E r \in ConcReqs : GenerateReturn(r)
    \/ \E r \in ConcReqs, o \in ConcFailures : GenerateFail(r, o)
    \/ \E r \in ConcReqs : GenerateTimeout(r)

ConcSpec == ConcInit /\ [][ConcNext]_vars

(* ------------------- ChatController.compareRetrieval ------------------- *)
CmpBadRequest == [status |-> 400, error |-> "Query required"]

CmpFailure(msg) == [status |-> 500, error |-> msg]

\* res.json({query, old_method, new_method})
CmpResponse(q, oldResults, newInitial, newReranked) ==
    [status |-> 200, query |-> q,
     old_count |-> Len(oldResults),
     initial_count |-> Len(newInitial),
     reranked_count |-> Len(newReranked),
     results |-> [i \in 1..Len(newReranked) |->
                    [text |-> newReranked[i].text,
                     vector_score |-> newReranked[i].score,
                     final_score |-> newReranked[i].final_score]]]

\* the catch block of compareRetrieval: one 500 response with error.message
CmpCaught(fn, kind, error, msg) ==
    cmp' = [cmp EXCEPT !.pc = "done", !.deadline = NoDeadline,
                       !.sent = Append(@, CmpFailure(msg)),
                       !.trace = Append(@, Throw(fn, kind, error))]

\* entry: `if (!query)` -> 400, else vectorStore.query(query, 5) is entered
\* and suspends in getCollection
CompareRetrieval(b) ==
    /\ Alive
    /\ cmp.pc = "idle"
    /\ IF Falsy(b)
       THEN cmp' = [cmp EXCEPT !.pc = "done", !.sent = Append(@, CmpBadRequest)]
       ELSE cmp' = [cmp EXCEPT !.pc = GetCollectionEntry(isInitialized),
                               !.phase = "old", !.query = b.val,
                               !.trace = Append(@, Call("query"))]
    /\ UNCHANGED <<reqVars, storeVars, ctorPc, statsVars, probe, upload, clear>>

\* ensureInitialized -> initializeCollection settled
CmpInitReturn(o) ==
    /\ Alive
    /\ cmp.pc = "init"
    /\ IF o = "ok"
       THEN /\ GotCollection
            /\ isInitialized' = TRUE
            /\ cmp' = [cmp EXCEPT !.pc = "getcoll"]
       ELSE /\ CmpCaught("initializeCollection", "error", ChromaErrorMessage,
                         ChromaErrorMessage)
            /\ UNCHANGED storeVars
    /\ UNCHANGED <<reqVars, ctorPc, statsVars, probe, upload, clear>>

\* getCollection's getOrCreateCollection settled: query() goes on to
\* embedTexts([queryText]), queryWithEmbedding() to collection.query
CmpGetCollReturn(o) ==
    /\ Alive
    /\ cmp.pc = "getcoll"
    /\ IF o = "ok"
       THEN /\ GotCollection
            /\ UNCHANGED isInitialized
            /\ IF cmp.phase = "old"
               THEN cmp' = [cmp EXCEPT !.pc = "embedTexts", !.coll = collId',
                                       !.deadline = EmbedTextsTimeoutMs,
                                       !.trace = Append(@, Call("embedTexts"))]
               ELSE cmp' = [cmp EXCEPT !.pc = "index", !.coll = collId',
                                       !.trace = Append(@, Call("indexQuery"))]
       ELSE /\ CmpCaught("getOrCreateCollection", "error", ChromaErrorMessage,
                         ChromaErrorMessage)
            /\ UNCHANGED storeVars
    /\ UNCHANGED <<reqVars, ctorPc, statsVars, probe, upload, clear>>

\* embedTexts resolved inside vectorStore.query: collection.query is awaited
CmpEmbedTextsReturn ==
    /\ Alive
    /\ cmp.pc = "embedTexts"
    /\ cmp' = [cmp EXCEPT !.pc = "index", !.deadline = NoDeadline,
                          !.trace = @ \o <<Ret("embedTexts", "ok", ""),
                                           Call("indexQuery")>>]
    /\ UNCHANGED <<reqVars, storeVars, ctorPc, statsVars, probe, upload, clear>>

CmpEmbedTextsFail(o) ==
    /\ Alive
    /\ cmp.pc = "embedTexts"
    /\ CmpCaught("embedTexts", o.kind, o.error, ThrownMessage(o, "Embedding failed"))
    /\ UNCHANGED <<reqVars, storeVars, ctorPc, statsVars, probe, upload, clear>>

CmpEmbedTextsTimeout ==
    /\ Alive
    /\ cmp.pc = "embedTexts"
    /\ cmp.deadline > 0
    /\ CmpCaught("embedTexts", "timeout", "", TimeoutMessage(cmp.deadline))
    /\ UNCHANGED <<reqVars, storeVars, ctorPc, statsVars, probe, upload, clear>>

\* collection.query resolved.  In vectorStore.query the result is oldResults
\* and embedQuery(query, true) is awaited next; in queryWithEmbedding it is
\* newInitial and rerank(query, newInitial, 5) is awaited next.  The call
\* resolves only on a handle whose collection still exists
CmpIndexReturn ==
    /\ Alive
    /\ cmp.pc = "index"
    /\ collExists /\ collId = cmp.coll
    /\ IF cmp.phase = "old"
       THEN cmp' = [cmp EXCEPT
                      !.oldResults = ToSearchResults(IndexReply(docs, CompareOldN)),
                      !.pc = "embedQuery", !.deadline = EmbedTimeoutMs,
                      !.trace = @ \o <<Ret("indexQuery", "ok", ""),
                                       Call("embedQuery")>>]
       ELSE cmp' = [cmp EXCEPT
                      !.newInitial = ToSearchResults(IndexReply(docs, CompareNewN)),
                      !.pc = "rerank", !.deadline = RerankTimeoutMs,
                      !.trace = @ \o <<Ret("indexQuery", "ok", ""),
                                       Call("rerank")>>]
    /\ UNCHANGED <<reqVars, storeVars, ctorPc, statsVars, probe, upload, clear>>

CmpIndexFail ==
    /\ Alive
    /\ cmp.pc = "index"
    /\ CmpCaught("indexQuery", "error", ChromaErrorMessage, ChromaErrorMessage)
    /\ UNCHANGED <<reqVars, storeVars, ctorPc, statsVars, probe, upload, clear>>

\* embedQuery resolved: queryWithEmbedding(embedding, 10) is entered and
\* suspends in getCollection
CmpEmbedQueryReturn ==
    /\ Alive
    /\ cmp.pc = "embedQuery"
    /\ cmp' = [cmp EXCEPT !.pc = GetCollectionEntry(isInitialized),
                          !.phase = "new", !.deadline = NoDeadline,
                          !.trace = Append(@, Ret("embedQuery", "ok", ""))]
    /\ UNCHANGED <<reqVars, storeVars, ctorPc, statsVars, probe, upload, clear>>

CmpEmbedQueryFail(o) ==
    /\ Alive
    /\ cmp.pc = "embedQuery"
    /\ CmpCaught("embedQuery", o.kind, o.error,
                 ThrownMessage(o, "Query embedding failed"))
    /\ UNCHANGED <<reqVars, storeVars, ctorPc, statsVars, probe, upload, clear>>

CmpEmbedQueryTimeout ==
    /\ Alive
    /\ cmp.pc = "embedQuery"
    /\ cmp.deadline > 0
    /\ CmpCaught("embedQuery", "timeout", "", TimeoutMessage(cmp.deadline))
    /\ UNCHANGED <<reqVars, storeVars, ctorPc, statsVars, probe, upload, clear>>

\* POST /rerank resolved with `results`: the 200 response is written
CmpRerankReturn(results) ==
    /\ Alive
    /\ cmp.pc = "rerank"
    /\ cmp' = [cmp EXCEPT !.newReranked = results, !.pc = "done",
                          !.deadline = NoDeadline,
                          !.sent = Append(@, CmpResponse(cmp.query, cmp.oldResults,
                                                         cmp.newInitial, results)),
                          !.trace = Append(@, Ret("rerank", "ok", ""))]
    /\ UNCHANGED <<reqVars, storeVars, ctorPc, statsVars, probe, upload, clear>>

CmpRerankFail(o) ==
    /\ Alive
    /\ cmp.pc = "rerank"
    /\ CmpCaught("rerank", o.kind, o.error, ThrownMessage(o, "Re-ranking failed"))
    /\ UNCHANGED <<reqVars, storeVars, ctorPc, statsVars, probe, upload, clear>>

CmpRerankTimeout ==
    /\ Alive
    /\ cmp.pc = "rerank"
    /\ cmp.deadline > 0
    /\ CmpCaught("rerank", "timeout", "", TimeoutMessage(cmp.deadline))
    /\ UNCHANGED <<reqVars, storeVars, ctorPc, statsVars, probe, upload, clear>>

\* the compareRetrieval request next to the constructor's initialisation
CmpNext ==
    \/ \E b \in Bodies : CompareRetrieval(b)
    \/ \E o \in ChromaOutcomes : CmpInitReturn(o)
    \/ \E o \in ChromaOutcomes : CmpGetCollReturn(o)
    \/ CmpEmbedTextsReturn
    \/ \E o \in AxiosFailures : CmpEmbedTextsFail(o)
    \/ CmpEmbedTextsTimeout
    \/ CmpIndexReturn
    \/ CmpIndexFail
    \/ CmpEmbedQueryReturn
    \/ \E o \in AxiosFailures : CmpEmbedQueryFail(o)
    \/ CmpEmbedQueryTimeout
    \/ \E res \in RerankReplies(cmp.query, cmp.newInitial, CompareTopK) :
          CmpRerankReturn(res)
    \/ \E o \in AxiosFailures : CmpRerankFail(o)
    \/ CmpRerankTimeout
    \/ \E o \in ChromaOutcomes : CtorInitReturn(o)

CmpSpec == Init /\ [][CmpNext]_vars

(* -------- DocumentController.uploadDocument / addDocuments ------------- *)
\* req.file as multer leaves it: absent, or a file with its extension
Files == { [present |-> FALSE, ext |-> ""],
           [present |-> TRUE, ext |-> ".exe"],
           [present |-> TRUE, ext |-> ".txt"] }

SupportedFormats == {".pdf", ".docx", ".txt", ".json"}

NoFileResponse == [status |-> 400, error |-> "No file uploaded", details |-> ""]

UnsupportedResponse ==
    [status |-> 400, error |-> "Unsupported file format", details |-> ""]

UploadFailure(msg) ==
    [status |-> 500, error |-> "Failed to process document", details |-> msg]

UploadResponse(n) ==
    [status |-> 200, success |-> TRUE, chunksCreated |-> n]

LoadNotFound ==
    [status |-> 404, error |-> "Knowledge base file not found", details |-> ""]

LoadFailure(msg) ==
    [status |-> 500, error |-> "Failed to load knowledge base", details |-> msg]

LoadResponse(n) ==
    [status |-> 200, success |-> TRUE, documentsLoaded |-> n]

ReadErrorMessage == "read error"
NoItemsMessage == "No items extracted from JSON"

\* the catch block of uploadDocument, or of loadKnowledgeBase
UploadCaught(msg) ==
    upload' = [upload EXCEPT !.pc = "done", !.deadline = NoDeadline,
                 !.sent = Append(@, IF upload.kind = "load" THEN LoadFailure(msg)
                                                            ELSE UploadFailure(msg))]

\* addDocuments returned: the handler answers 200
UploadDone(n) ==
    upload' = [upload EXCEPT !.pc = "done", !.deadline = NoDeadline,
                 !.sent = Append(@, IF upload.kind = "load" THEN LoadResponse(n)
                                                            ELSE UploadResponse(n))]

\* loadKnowledgeBase, entry: fs.access(jsonPath) is awaited
LoadKnowledgeBase ==
    /\ Alive
    /\ upload.pc = "idle"
    /\ upload' = [upload EXCEPT !.pc = "access", !.kind = "load"]
    /\ UNCHANGED <<reqVars, storeVars, ctorPc, statsVars, probe, cmp, clear>>

\* fs.access settled: 404 when the file is missing, otherwise
\* loadJsonKnowledgeBase awaits readFile
LoadAccessReturn(found) ==
    /\ Alive
    /\ upload.pc = "access"
    /\ IF found
       THEN upload' = [upload EXCEPT !.pc = "read"]
       ELSE upload' = [upload EXCEPT !.pc = "done", !.sent = Append(@, LoadNotFound)]
    /\ UNCHANGED <<reqVars, storeVars, ctorPc, statsVars, probe, cmp, clear>>

\* readFile settled; n items come out of the flattening.  No items is an
\* error, otherwise addDocuments(items) suspends in getCollection
LoadReadReturn(ok, n) ==
    /\ Alive
    /\ upload.pc = "read"
    /\ IF ~ok THEN UploadCaught(ReadErrorMessage)
       ELSE IF n = 0 THEN UploadCaught(NoItemsMessage)
       ELSE upload' = [upload EXCEPT !.pc = GetCollectionEntry(isInitialized),
                                     !.items = n]
    /\ UNCHANGED <<reqVars, storeVars, ctorPc, statsVars, probe, cmp, clear>>

\* entry: the two checks on req.file, then processDocument is awaited
UploadDocument(f) ==
    /\ Alive
    /\ upload.pc = "idle"
    /\ IF ~f.present
       THEN upload' = [upload EXCEPT !.pc = "done", !.sent = Append(@, NoFileResponse)]
       ELSE IF f.ext \notin SupportedFormats
       THEN upload' = [upload EXCEPT !.pc = "done",
                                     !.sent = Append(@, UnsupportedResponse)]
       ELSE upload' = [upload EXCEPT !.pc = "process", !.deadline = ProcessTimeoutMs]
    /\ UNCHANGED <<reqVars, storeVars, ctorPc, statsVars, probe, cmp, clear>>

\* processDocument resolved with n chunks: addDocuments(items) returns at
\* once for no items, otherwise it suspends in getCollection
UploadProcessReturn(n) ==
    /\ Alive
    /\ upload.pc = "process"
    /\ IF n = 0
       THEN UploadDone(0)
       ELSE upload' = [upload EXCEPT !.pc = GetCollectionEntry(isInitialized),
                                     !.items = n, !.deadline = NoDeadline]
    /\ UNCHANGED <<reqVars, storeVars, ctorPc, statsVars, probe, cmp, clear>>

UploadProcessFail(o) ==
    /\ Alive
    /\ upload.pc = "process"
    /\ UploadCaught(ThrownMessage(o, "Document processing failed"))
    /\ UNCHANGED <<reqVars, storeVars, ctorPc, statsVars, probe, cmp, clear>>

UploadProcessTimeout ==
    /\ Alive
    /\ upload.pc = "process"
    /\ upload.deadline > 0
    /\ UploadCaught(TimeoutMessage(upload.deadline))
    /\ UNCHANGED <<reqVars, storeVars, ctorPc, statsVars, probe, cmp, clear>>

UploadInitReturn(o) ==
    /\ Alive
    /\ upload.pc = "init"
    /\ IF o = "ok"
       THEN /\ GotCollection
            /\ isInitialized' = TRUE
            /\ upload' = [upload EXCEPT !.pc = "getcoll"]
       ELSE /\ UploadCaught(ChromaErrorMessage)
            /\ UNCHANGED storeVars
    /\ UNCHANGED <<reqVars, ctorPc, statsVars, probe, cmp, clear>>

\* getCollection resolved: the handle is kept in the local `collection`
\* and embedTexts(texts) is awaited
UploadGetCollReturn(o) ==
    /\ Alive
    /\ upload.pc = "getcoll"
    /\ IF o = "ok"
       THEN /\ GotCollection
            /\ UNCHANGED isInitialized
            /\ upload' = [upload EXCEPT !.pc = "embedTexts", !.coll = collId',
                                        !.deadline = EmbedTextsTimeoutMs]
       ELSE /\ UploadCaught(ChromaErrorMessage)
            /\ UNCHANGED storeVars
    /\ UNCHANGED <<reqVars, ctorPc, statsVars, probe, cmp, clear>>

\* embedTexts resolved: collection.add({ids, embeddings, documents, ...})
UploadEmbedReturn ==
    /\ Alive
    /\ upload.pc = "embedTexts"
    /\ upload' = [upload EXCEPT !.pc = "add", !.deadline = NoDeadline]
    /\ UNCHANGED <<reqVars, storeVars, ctorPc, statsVars, probe, cmp, clear>>

UploadEmbedFail(o) ==
    /\ Alive
    /\ upload.pc = "embedTexts"
    /\ UploadCaught(ThrownMessage(o, "Embedding failed"))
    /\ UNCHANGED <<reqVars, storeVars, ctorPc, statsVars, probe, cmp, clear>>

UploadEmbedTimeout ==
    /\ Alive
    /\ upload.pc = "embedTexts"
    /\ upload.deadline > 0
    /\ UploadCaught(TimeoutMessage(upload.deadline))
    /\ UNCHANGED <<reqVars, storeVars, ctorPc, statsVars, probe, cmp, clear>>

\* variant: the items are added one by one, and a failure leaves the first
\* one stored
UploadAddReturnPartial(o) ==
    /\ Alive
    /\ upload.pc = "add"
    /\ IF collExists /\ collId = upload.coll
       THEN IF o = "ok"
            THEN /\ docs' = [i \in 1..(Len(docs) + upload.items) |-> i]
                 /\ UploadDone(upload.items)
                 /\ UNCHANGED <<isInitialized, collection, collExists, collId>>
            ELSE /\ docs' = [i \in 1..(Len(docs) + 1) |-> i]
                 /\ UploadCaught(ChromaErrorMessage)
                 /\ UNCHANGED <<isInitialized, collection, collExists, collId>>
       ELSE /\ UploadCaught(ChromaErrorMessage)
            /\ UNCHANGED storeVars
    /\ UNCHANGED <<reqVars, ctorPc, statsVars, probe, cmp, clear>>

\* collection.add settled.  The whole batch is stored by this one call; the
\* call fails when the handle's collection has been deleted meanwhile
UploadAddReturn(o) ==
    /\ Alive
    /\ upload.pc = "add"
    /\ IF o = "ok" /\ collExists /\ collId = upload.coll
       THEN /\ docs' = [i \in 1..(Len(docs) + upload.items) |-> i]
            /\ UploadDone(upload.items)
            /\ UNCHANGED <<isInitialized, collection, collExists, collId>>
       ELSE /\ UploadCaught(ChromaErrorMessage)
            /\ UNCHANGED storeVars
    /\ UNCHANGED <<reqVars, ctorPc, statsVars, probe, cmp, clear>>

(* ------- DocumentController.clearKnowledgeBase / clearCollection ------- *)
ClearResponse == [status |-> 200, success |-> TRUE, details |-> ""]

ClearFailure(msg) ==
    [status |-> 500, error |-> "Failed to clear knowledge base", details |-> msg]

ClearCaught(msg) ==
    clear' = [clear EXCEPT !.pc = "done", !.sent = Append(@, ClearFailure(msg))]

\* entry: client.deleteCollection({name}) is awaited
ClearKnowledgeBase ==
    /\ Alive
    /\ clear.pc = "idle"
    /\ clear' = [clear EXCEPT !.pc = "delete"]
    /\ UNCHANGED <<reqVars, storeVars, ctorPc, statsVars, probe, cmp, upload>>

\* deleteCollection settled: the collection and its documents are gone, and
\* getCollection() is entered to create it again
ClearDeleteReturn(o) ==
    /\ Alive
    /\ clear.pc = "delete"
    /\ IF o = "ok" /\ collExists
       THEN /\ collExists' = FALSE
            /\ docs' = <<>>
            /\ clear' = [clear EXCEPT !.pc = GetCollectionEntry(isInitialized)]
            /\ UNCHANGED <<isInitialized, collection, collId>>
       ELSE /\ ClearCaught(ChromaErrorMessage)
            /\ UNCHANGED storeVars
    /\ UNCHANGED <<reqVars, ctorPc, statsVars, probe, cmp, upload>>

ClearInitReturn(o) ==
    /\ Alive
    /\ clear.pc = "init"
    /\ IF o = "ok"
       THEN /\ GotCollection
            /\ isInitialized' = TRUE
            /\ clear' = [clear EXCEPT !.pc = "getcoll"]
       ELSE /\ ClearCaught(ChromaErrorMessage)
            /\ UNCHANGED storeVars
    /\ UNCHANGED <<reqVars, ctorPc, statsVars, probe, cmp, upload>>

\* variant: clearCollection answers from the handle it already holds
ClearGetCollReturnCached(o) ==
    /\ Alive
    /\ clear.pc = "getcoll"
    /\ IF o = "ok"
       THEN clear' = [clear EXCEPT !.pc = "done", !.sent = Append(@, ClearResponse)]
       ELSE ClearCaught(ChromaErrorMessage)
    /\ UNCHANGED storeVars
    /\ UNCHANGED <<reqVars, ctorPc, statsVars, probe, cmp, upload>>

ClearGetCollReturn(o) ==
    /\ Alive
    /\ clear.pc = "getcoll"
    /\ IF o = "ok"
       THEN /\ GotCollection
            /\ UNCHANGED isInitialized
            /\ clear' = [clear EXCEPT !.pc = "done",
                                      !.sent = Append(@, ClearResponse)]
       ELSE /\ ClearCaught(ChromaErrorMessage)
            /\ UNCHANGED storeVars
    /\ UNCHANGED <<reqVars, ctorPc, statsVars, probe, cmp, upload>>

\* one upload and one clear request, next to the constructor's initialisation
WriteNext ==
    \/ \E f \in Files : UploadDocument(f)
    \/ \E n \in 0..MaxChunks : UploadProcessReturn(n)
    \/ \E o \in AxiosFailures : UploadProcessFail(o)
    \/ UploadProcessTimeout
    \/ \E o \in ChromaOutcomes : UploadInitReturn(o)
    \/ \E o \in ChromaOutcomes : UploadGetCollReturn(o)
    \/ UploadEmbedReturn
    \/ \E o \in AxiosFailures : UploadEmbedFail(o)
    \/ UploadEmbedTimeout
    \/ \E o \in ChromaOutcomes : UploadAddReturn(o)
    \/ LoadKnowledgeBase
    \/ \E found \in BOOLEAN : LoadAccessReturn(found)
    \/ \E ok \in BOOLEAN, n \in 0..MaxChunks : LoadReadReturn(ok, n)
    \/ ClearKnowledgeBase
    \/ \E o \in ChromaOutcomes : ClearDeleteReturn(o)
    \/ \E o \in ChromaOutcomes : ClearInitReturn(o)
    \/ \E o \in ChromaOutcomes : ClearGetCollReturn(o)
    \/ \E o \in ChromaOutcomes : CtorInitReturn(o)

WriteSpec == Init /\ [][WriteNext]_vars

(* ----- ingestion next to a /query and a /stats request, no clear ------- *)
\* The /query request is followed through the steps that reach the index;
\* the failures of its remote calls, which end it without an index call,
\* are those of Spec.
IngestNext ==
    \/ \E f \in Files : UploadDocument(f)
    \/ \E n \in 0..MaxChunks : UploadProcessReturn(n)
    \/ \E o \in ConcFailures : UploadProcessFail(o)
    \/ UploadProcessTimeout
    \/ \E o \in ChromaOutcomes : UploadInitReturn(o)
    \/ \E o \in ChromaOutcomes : UploadGetCollReturn(o)
    \/ UploadEmbedReturn
    \/ \E o \in ConcFailures : UploadEmbedFail(o)
    \/ UploadEmbedTimeout
    \/ \E o \in ChromaOutcomes : UploadAddReturn(o)
    \/ LoadKnowledgeBase
    \/ \E found \in BOOLEAN : LoadAccessReturn(found)
    \/ \E ok \in BOOLEAN, n \in 0..MaxChunks : LoadReadReturn(ok, n)
    \/ \E r \in Reqs, b \in ConcBodies : Query(r, b)
    \/ \E r \in Reqs : AnalyzeTimeout(r)
    \/ \E r \in Reqs : EmbedReturn(r)
    \/ \E r \in Reqs, o \in ChromaOutcomes : InitReturn(r, o)
    \/ \E r \in Reqs, o \in ChromaOutcomes : GetCollReturn(r, o)
    \/ \E r \in Reqs : IndexReturn(r)
    \/ \E r \in Reqs :
          \E res \in RerankReplies(body[r].val, initial[r], rrTopK[r]) :
             RerankReturn(r, res)
    \/ \E r \in Reqs : GenerateReturn(r)
    \/ GetStats
    \/ \E o \in ChromaOutcomes : StatsInitReturn(o)
    \/ \E o \in ChromaOutcomes : StatsGetCollReturn(o)
    \/ \E o \in ChromaOutcomes : StatsCountReturn(o)
    \/ \E o \in ChromaOutcomes : CtorInitReturn(o)

\* the index starts absent, empty or full
IngestInit == Init /\ Len(docs) \in {0, MaxDocs}

IngestSpec == IngestInit /\ [][IngestNext]_vars

(* --- every vector-store operation next to a clear request ------------- *)
\* The requests are followed through their index calls: a valid upload,
\* compareRetrieval (vectorStore.query and queryWithEmbedding), getStats and
\* clearKnowledgeBase.  The failures of the remote calls, which end a
\* request without a further index call, are those of CmpSpec and WriteSpec.
StoreFiles == { f \in Files : f.present /\ f.ext \in SupportedFormats }

StoreBodies == { b \in Bodies : ~Falsy(b) /\ b.type = "string" }

StoreNext ==
    \/ ClearKnowledgeBase
    \/ \E o \in ChromaOutcomes : ClearDeleteReturn(o)
    \/ \E o \in ChromaOutcomes : ClearInitReturn(o)
    \/ \E o \in ChromaOutcomes : ClearGetCollReturn(o)
    \/ \E f \in StoreFiles : UploadDocument(f)
    \/ \E n \in 1..MaxChunks : UploadProcessReturn(n)
    \/ \E o \in ChromaOutcomes : UploadInitReturn(o)
    \/ \E o \in ChromaOutcomes : UploadGetCollReturn(o)
    \/ UploadEmbedReturn
    \/ \E o \in ChromaOutcomes : UploadAddReturn(o)
    \/ \E b \in StoreBodies : CompareRetrieval(b)
    \/ \E o \in ChromaOutcomes : CmpInitReturn(o)
    \/ \E o \in ChromaOutcomes : CmpGetCollReturn(o)
    \/ CmpEmbedTextsReturn
    \/ CmpIndexReturn
    \/ CmpIndexFail
    \/ CmpEmbedQueryReturn
    \/ \E res \in RerankReplies(cmp.query, cmp.newInitial, CompareTopK) :
          CmpRerankReturn(res)
    \/ GetStats
    \/ \E o \in ChromaOutcomes : StatsInitReturn(o)
    \/ \E o \in ChromaOutcomes : StatsGetCollReturn(o)
    \/ \E o \in ChromaOutcomes : StatsCountReturn(o)
    \/ \E o \in ChromaOutcomes : CtorInitReturn(o)

\* the index starts absent, empty or full
StoreInit == Init /\ Len(docs) \in {0, MaxDocs}

StoreSpec == StoreInit /\ [][StoreNext]_vars

(* ------------- analyzeQuery invoked twice on the same query ------------ *)
\* query strings the function is applied to
ProbeQueries ==
    { <<>>, <<"a">>, <<"a", " ", "b">>, <<"a", " ", "b", " ", "c">>,
      <<" ", "a">>, <<"a", " ">>, <<"a", " ", " ", "b">> }

\* how an /analyze-query call may settle
AnalyzeKinds == {"ok", "fail", "neterr", "timeout"}

\* the settled call as analyzeQuery sees it: the collaborator's data when it
\* answered, no data otherwise
AnalyzeOutcome(kind, d) ==
    IF kind = "ok" THEN [kind |-> "ok", error |-> "", data |-> d]
                   ELSE [kind |-> kind, error |-> ""]

\* first invocation analyzeQuery(q); d is what the collaborator answers for
\* q whenever it answers
ProbeFirst(q, d, kind) ==
    /\ Alive
    /\ probe.phase = 0
    /\ probe' = [probe EXCEPT !.phase = 1, !.q = q, !.data = d,
                     !.first = analyzeQuery(q, AnalyzeOutcome(kind, d))]
    /\ UNCHANGED <<reqVars, storeVars, ctorPc, statsVars, cmp, upload, clear>>

\* second invocation analyzeQuery(q) of the same string
ProbeSecond(kind) ==
    /\ Alive
    /\ probe.phase = 1
    /\ probe' = [probe EXCEPT !.phase = 2,
                     !.second = analyzeQuery(probe.q, AnalyzeOutcome(kind, probe.data))]
    /\ UNCHANGED <<reqVars, storeVars, ctorPc, statsVars, cmp, upload, clear>>

ProbeNext ==
    \/ \E q \in ProbeQueries, d \in AnalysisReplies, kind \in AnalyzeKinds :
          ProbeFirst(q, d, kind)
    \/ \E kind \in AnalyzeKinds : ProbeSecond(kind)

ProbeSpec == Init /\ [][ProbeNext]_vars

(* ====================== properties of the pipeline ===================== *)
Stages == <<"analyzeQuery", "embedQuery", "indexQuery", "rerank", "generate">>
StageSet == {Stages[i] : i \in 1..Len(Stages)}

Events(r, ev, fn) ==
    {i \in 1..Len(trace[r]) : trace[r][i].ev = ev /\ trace[r][i].fn = fn}
Called(r, fn)   == Events(r, "call", fn) # {}
Returned(r, fn) == Events(r, "ret", fn) # {}
Threw(r, fn)    == Events(r, "throw", fn) # {}

\* the remote analysis call of request r settled with a failure
AnalyzerFailed(r) ==
    \E i \in 1..Len(trace[r]) :
        /\ trace[r][i].fn = "analyzeQuery"
        /\ trace[r][i].ev # "call"
        /\ trace[r][i].kind # "ok"

AnswerSent(r) ==
    \E i \in 1..Len(sent[r]) : sent[r][i].answer = GeneratedAnswer

\* C1: when the index lookup returns zero candidates the request ends with
\* the canned answer and sources = [], and neither rerank nor generate is
\* invoked for it.
C1_NoKnowledgeShortCircuit ==
    \A r \in Reqs :
        (Returned(r, "indexQuery") /\ initial[r] = <<>>) =>
            /\ pc[r] = "done"
            /\ Len(sent[r]) = 1
            /\ sent[r][1].status = 200
            /\ sent[r][1].answer = CannedAnswer
            /\ sent[r][1].hasSources /\ sent[r][1].sources = <<>>
            /\ ~Called(r, "rerank")
            /\ ~Called(r, "generate")

C1_Witness ==
    \E r \in Reqs : Returned(r, "indexQuery") /\ initial[r] = <<>> /\ pc[r] = "done"

\* C2: within one request the five external calls are made in the order
\* analyzeQuery, embedQuery, index query, rerank, generate, each only after
\* the previous one has returned, and a generated answer has made all five.
C2_StageOrder ==
    \A r \in Reqs :
        LET st == SelectSeq(trace[r], LAMBDA e : e.fn \in StageSet) IN
        /\ Len(st) <= 2 * Len(Stages)
        /\ \A i \in 1..Len(st) :
              /\ st[i].fn = Stages[(i + 1) \div 2]
              /\ (i % 2 = 1) => (st[i].ev = "call" /\ (i > 1 => st[i - 1].ev = "ret"))
              /\ (i % 2 = 0) => st[i].ev \in {"ret", "throw"}
        /\ AnswerSent(r) => Len(st) = 2 * Len(Stages)

C2_Witness == \E r \in Reqs : AnswerSent(r) /\ pc[r] = "done"

\* C3: a failure of embedQuery, the index query, rerank or generate ends the
\* request with the single response 500 'Failed to process query' whose
\* details carry the collaborator's error message; nothing is called after
\* it and no answer or sources are returned.
C3_FailurePropagates ==
    \A r \in Reqs : \A i \in 1..Len(trace[r]) :
        (trace[r][i].ev = "throw" /\ trace[r][i].fn # "analyzeQuery") =>
            /\ i = Len(trace[r])
            /\ pc[r] = "done"
            /\ Len(sent[r]) = 1
            /\ sent[r][1].status = 500
            /\ sent[r][1].error = "Failed to process query"
            /\ sent[r][1].details # ""
            /\ (trace[r][i].error # "" => sent[r][1].details = trace[r][i].error)
            /\ sent[r][1].answer = ""
            /\ ~sent[r][1].hasSources

C3_Witness ==
    \E r \in Reqs :
        /\ pc[r] = "done"
        /\ Len(trace[r]) > 0
        /\ trace[r][Len(trace[r])] = Throw("generate", "fail", "upstream error")

\* C4: analyzeQuery never throws; whenever the remote analysis call failed
\* (success=false, transport error, timeout) the QueryAnalysis it returns is
\* general / top_k 5 / expand_query true / medium.
C4_AnalyzeNeverFails ==
    \A r \in Reqs :
        /\ ~Threw(r, "analyzeQuery")
        /\ Returned(r, "analyzeQuery") => analysis[r] # NoAnalysis
        /\ AnalyzerFailed(r) =>
              /\ analysis[r].query_type = "general"
              /\ analysis[r].top_k = 5
              /\ analysis[r].expand_query = TRUE
              /\ analysis[r].complexity = "medium"

C4_Witness ==
    \E r \in Reqs : \E i \in Events(r, "ret", "analyzeQuery") :
        trace[r][i].kind = "timeout"

\* C5: an analyzer failure does not end the request: embedQuery is called
\* with expansion on, the index is asked for 10 candidates, rerank gets
\* topK = 5, and a failure response can only come from a later stage.
C5_AnalyzerFailureAbsorbed ==
    \A r \in Reqs :
        AnalyzerFailed(r) =>
            /\ Called(r, "embedQuery")
            /\ Returned(r, "embedQuery") =>
                  embedRes[r] = EmbedReply(body[r].val, TRUE)
            /\ Called(r, "indexQuery") => idxN[r] = 10
            /\ Called(r, "rerank") => rrTopK[r] = 5
            /\ \A i \in 1..Len(sent[r]) :
                  sent[r][i].status # 200 =>
                      /\ sent[r][i].status = 500
                      /\ trace[r][Len(trace[r])].ev = "throw"
                      /\ trace[r][Len(trace[r])].fn # "analyzeQuery"

C5_Witness ==
    \E r \in Reqs :
        AnalyzerFailed(r) /\ AnswerSent(r) /\ idxN[r] = 10 /\ rrTopK[r] = 5

\* C6: every external call of the request (embedding, index query, re-rank,
\* generation) is made with a deadline, so that a call that never answers
\* still ends the request.
C6_EveryCallHasDeadline ==
    \A r \in Reqs :
        pc[r] \in {"embed", "index", "rerank", "generate"} => deadline[r] > 0

\* C7: the index is asked for min(top_k * 2, 15) candidates, top_k being the
\* one of the request's QueryAnalysis, and rerank is given that same top_k.
C7_OverFetch ==
    \A r \in Reqs :
        LET k == analysis[r].top_k IN
        /\ Returned(r, "embedQuery") =>
              /\ (2 * k <= 15 => idxN[r] = 2 * k)
              /\ (2 * k > 15 => idxN[r] = 15)
        /\ Called(r, "rerank") => rrTopK[r] = k

C7_Witness ==
    \E r \in Reqs : Called(r, "rerank") /\ analysis[r].top_k = 8 /\ idxN[r] = 15

\* C8: the top_k the pipeline uses is within 3..10 whatever the analysis
\* collaborator returned.
C8_TopKBounded ==
    \A r \in Reqs :
        /\ Returned(r, "analyzeQuery") => analysis[r].top_k \in 3..10
        /\ Called(r, "rerank") => rrTopK[r] \in 3..10

\* C9: no retry: each of the five calls is made at most once per request,
\* and a thrown failure is the last thing the request does.
C9_NoRetry ==
    \A r \in Reqs :
        /\ \A fn \in StageSet : Cardinality(Events(r, "call", fn)) <= 1
        /\ \A i \in 1..Len(trace[r]) :
              trace[r][i].ev = "throw" =>
                  \A j \in (i + 1)..Len(trace[r]) : trace[r][j].ev # "call"

C9_Witness ==
    \E r \in Reqs :
        /\ pc[r] = "done"
        /\ Threw(r, "embedQuery")
        /\ Cardinality(Events(r, "call", "embedQuery")) = 1

\* C10: only an analyzer failure is absorbed: a failed index, embedder,
\* re-ranker or generator call gives the caller a failure, for handleQuery
\* and for getStats; getStats never reports a normal count when a call of
\* it failed.
C10_OnlyAnalysisAbsorbed ==
    /\ \A r \in Reqs :
          (\E i \in 1..Len(trace[r]) : trace[r][i].ev = "throw") =>
              \A j \in 1..Len(sent[r]) : sent[r][j].status = 500
    /\ statsFailed => \A j \in 1..Len(statsSent) : ~statsSent[j].success

\* C11: on the answering path generate receives all re-ranked results in
\* re-ranked order, and the response's sources are the first min(3, n) of
\* them, in order, each with score = final_score.
C11_SourcesArePrefix ==
    \A r \in Reqs :
        /\ Called(r, "generate") => genCtx[r] = reranked[r]
        /\ \A k \in 1..Len(sent[r]) :
              sent[r][k].answer = GeneratedAnswer =>
                  LET src == sent[r][k].sources IN
                  /\ (Len(reranked[r]) <= 3 => Len(src) = Len(reranked[r]))
                  /\ (Len(reranked[r]) > 3 => Len(src) = 3)
                  /\ \A i \in 1..Len(src) :
                        /\ src[i].text = reranked[r][i].text
                        /\ src[i].metadata = reranked[r][i].metadata
                        /\ src[i].score = reranked[r][i].final_score

C11_Witness ==
    \E r \in Reqs : AnswerSent(r) /\ Len(genCtx[r]) = 4 /\ Len(sent[r][1].sources) = 3

\* C12: every passage passed to generate for a request appears in that
\* request's reported sources.
C12_SourcesCoverContext ==
    \A r \in Reqs : \A k \in 1..Len(sent[r]) :
        sent[r][k].answer = GeneratedAnswer =>
            \A i \in 1..Len(genCtx[r]) :
                \E j \in 1..Len(sent[r][k].sources) :
                    sent[r][k].sources[j].text = genCtx[r][i].text

\* 0-based position request r's candidate list gave the passage `text`
OriginalPosition(r, text) ==
    (CHOOSE i \in 1..Len(initial[r]) : initial[r][i].text = text) - 1

\* C13: for a non-empty candidate set the list handed to the generator is
\* sorted by final_score descending, ties by ascending original position,
\* and has min(topK, number of candidates) entries.
C13_RerankedSorted ==
    \A r \in Reqs :
        Called(r, "generate") =>
            LET ctx == genCtx[r]
                k == analysis[r].top_k
                n == Len(initial[r])
            IN  /\ (k <= n => Len(ctx) = k)
                /\ (k > n => Len(ctx) = n)
                /\ \A i \in 1..Len(ctx) :
                      \E j \in 1..n : initial[r][j].text = ctx[i].text
                /\ \A i, j \in 1..Len(ctx) :
                      i < j =>
                          \/ ctx[i].final_score > ctx[j].final_score
                          \/ /\ ctx[i].final_score = ctx[j].final_score
                             /\ OriginalPosition(r, ctx[i].text)
                                  < OriginalPosition(r, ctx[j].text)

\* a re-ordered list with a tie: passage 3 first, then 1 and 2 on equal score
C13_Witness ==
    \E r \in Reqs :
        /\ Called(r, "generate")
        /\ Len(initial[r]) = 4 /\ Len(genCtx[r]) = 4
        /\ genCtx[r][1].text = 3
        /\ genCtx[r][2].final_score = genCtx[r][3].final_score
        /\ genCtx[r][2].text = 1 /\ genCtx[r][3].text = 2

\* C16: the i-th candidate returned by queryWithEmbedding is built from the
\* i-th document, metadata and distance of the nearest-neighbour response,
\* so that its place in the list is its 0-based original rank.
C16_CandidatesInResponseOrder ==
    \A r \in Reqs :
        Returned(r, "indexQuery") =>
            /\ (idxN[r] <= Len(docs) => Len(initial[r]) = idxN[r])
            /\ (idxN[r] > Len(docs) => Len(initial[r]) = Len(docs))
            /\ \A i \in 1..Len(initial[r]) :
                  /\ initial[r][i].text = docs[i]
                  /\ initial[r][i].metadata = MetaOf(docs[i])
                  /\ initial[r][i].score = DistOf(docs[i])

C16_Witness ==
    \E r \in Reqs : Returned(r, "indexQuery") /\ Len(initial[r]) = 4

\* C17: the score of the candidates handed to the re-ranker is a similarity:
\* a candidate at a better original rank never has a lower score than one at
\* a worse rank.
C17_ScoreIsSimilarity ==
    \A r \in Reqs : \A i, j \in 1..Len(initial[r]) :
        i < j => initial[r][i].score >= initial[r][j].score

\* a step taken by the /query request r
QueryStep(r) == trace'[r] # trace[r] \/ sent'[r] # sent[r]

\* C20 as claimed: no step of a /query request changes the stored documents
\* or the existence of the collection.
C20_QueryLeavesIndexUntouched ==
    [][\A r \in Reqs :
          QueryStep(r) => (docs' = docs /\ collExists' = collExists)]_vars

\* C20 amended: a /query request never changes the stored documents and
\* never removes or replaces the collection; it can only create the
\* collection, empty, when it does not exist.
C20_QueryKeepsDocuments ==
    [][\A r \in Reqs :
          QueryStep(r) =>
              /\ docs' = docs
              /\ collExists => (collExists' /\ collId' = collId)
              /\ (~collExists /\ collExists') => docs' = <<>>]_vars

C20_Witness ==
    \E r \in Reqs : pc[r] = "done" /\ AnswerSent(r) /\ Len(docs) = 4

\* C15: analyzeQuery is deterministic: two invocations on the same query
\* string yield the same QueryAnalysis.
C15_AnalyzeDeterministic ==
    probe.phase = 2 => probe.first = probe.second

\* C14: whenever rerank is called with an empty candidate set, on the
\* compareRetrieval path, it returns an empty sequence and throws nothing.
C14_EmptyRerankReturnsEmpty ==
    (/\ cmp.pc = "done"
     /\ \E i \in 1..Len(cmp.trace) : cmp.trace[i] = Call("rerank")
     /\ cmp.newInitial = <<>>)
        => /\ cmp.trace[Len(cmp.trace)] = Ret("rerank", "ok", "")
           /\ cmp.newReranked = <<>>

\* addDocuments / clearCollection has started and not yet settled
AddInProgress == upload.pc \in {"init", "getcoll", "embedTexts", "add"}
ClearInProgress == clear.pc \in {"delete", "init", "getcoll"}

\* C19: index writes are serialized: addDocuments and clearCollection are
\* never in progress on the index at the same time.
C19_WritesSerialized == ~(AddInProgress /\ ClearInProgress)

\* what request r computes from its own body, its own analysis and the index
OwnCandidates(r) ==
    ToSearchResults(IndexReply(docs, OverFetch(analysis[r].top_k)))

OwnReranked(r) == Rerank(body[r].val, OwnCandidates(r), analysis[r].top_k)

\* the response request r produces when it runs alone
OwnResponse(r) ==
    IF InvalidQuery(body[r]) THEN BadRequest
    ELSE IF trace[r][Len(trace[r])].ev = "throw"
         THEN sent[r][1]
    ELSE IF NoKnowledge(OwnCandidates(r)) THEN NoKnowledgeResponse
    ELSE AnswerResponse(GeneratedAnswer, OwnReranked(r))

\* C18: with two /query requests interleaved at their awaits, every value a
\* request works with and the response it sends are the ones determined by
\* its own body, its own analysis and the index contents.
C18_RequestsIndependent ==
    \A r \in DOMAIN pc :
        /\ Returned(r, "embedQuery") =>
              /\ idxN[r] = OverFetch(analysis[r].top_k)
              /\ embedRes[r] = EmbedReply(body[r].val, analysis[r].expand_query)
        /\ Returned(r, "indexQuery") => initial[r] = OwnCandidates(r)
        /\ Called(r, "rerank") => rrTopK[r] = analysis[r].top_k
        /\ Returned(r, "rerank") =>
              /\ reranked[r] = OwnReranked(r)
              /\ genCtx[r] = OwnReranked(r)
        /\ pc[r] = "done" =>
              /\ Len(sent[r]) = 1
              /\ sent[r][1] = OwnResponse(r)
              /\ (trace[r] # <<>> /\ trace[r][Len(trace[r])].ev = "throw")
                    => sent[r][1].status = 500

\* both requests are in flight with different topK and one has its answer
C18_Witness ==
    /\ DOMAIN pc = ConcReqs
    /\ pc[1] = "done" /\ AnswerSent(1)
    /\ pc[2] = "generate"
    /\ analysis[1].top_k = 1 /\ analysis[2].top_k = 8
    /\ Len(reranked[1]) = 1 /\ Len(reranked[2]) = 4

\* C24: a /query request writes no response while it is suspended and
\* exactly one when it ends: the 400, the canned no-knowledge answer, the
\* generated answer, or the 500 "Failed to process query".
C24_ExactlyOneResponse ==
    \A r \in Reqs :
        /\ pc[r] # "done" => sent[r] = <<>>
        /\ pc[r] = "done" =>
              /\ Len(sent[r]) = 1
              /\ \/ sent[r][1] = BadRequest
                 \/ sent[r][1] = NoKnowledgeResponse
                 \/ (sent[r][1].status = 200 /\ sent[r][1].answer = GeneratedAnswer)
                 \/ (sent[r][1].status = 500
                       /\ sent[r][1].error = "Failed to process query")

C24_Witness ==
    \E r \in Reqs :
        /\ pc[r] = "done"
        /\ Returned(r, "generate")
        /\ Len(sent[r]) = 1
        /\ sent[r][1].answer = GeneratedAnswer

\* C25: a request whose query is missing, empty or not a string ends with
\* the 400 response and has made no external call.
C25_InvalidRejectedFirst ==
    \A r \in Reqs :
        (pc[r] # "idle" /\ (body[r].type # "string" \/ body[r].val = <<>>)) =>
            /\ pc[r] = "done"
            /\ sent[r] = <<BadRequest>>
            /\ trace[r] = <<>>

C25_Witness ==
    \E r \in Reqs : pc[r] = "done" /\ body[r].type = "number" /\ sent[r] = <<BadRequest>>

\* number of non-empty tokens of q separated by blanks
TokenCount(q) ==
    Cardinality({ i \in 1..Len(q) : q[i] # " " /\ (i = 1 \/ q[i - 1] = " ") })

\* C22: when analyzeQuery answers with its fallback, query_length is the
\* number of non-empty blank-separated tokens of the query.
C22_FallbackLengthIsTokenCount ==
    (probe.phase >= 1 /\ probe.first = DefaultAnalysis(probe.q)) =>
        probe.first.query_length = TokenCount(probe.q)

\* a step of the upload / load-knowledge-base request
IngestStep == upload' # upload

\* the step is the successful return of collection.add
AddSucceeds ==
    /\ upload.pc = "add"
    /\ upload'.pc = "done"
    /\ upload'.sent[Len(upload'.sent)].status = 200

\* C26: addDocuments stores the whole batch in the one step in which
\* collection.add succeeds, after the documents already stored, and no other
\* step of the request (empty batch, failed embedding, failed add) changes
\* the stored documents.
C26_AddAllOrNothing ==
    [][IngestStep =>
          IF AddSucceeds
          THEN /\ Len(docs') = Len(docs) + upload.items
               /\ SubSeq(docs', 1, Len(docs)) = docs
               /\ \A i \in (Len(docs) + 1)..Len(docs') : docs'[i] = i
          ELSE docs' = docs]_vars

C26_Witness ==
    /\ upload.pc = "done"
    /\ upload.sent = <<UploadResponse(2)>>
    /\ Len(docs) >= 2

\* C21: without clearCollection, every stored document stays where it is,
\* unchanged, and the number of documents never decreases.
C21_DocumentsKept ==
    [][/\ Len(docs') >= Len(docs)
       /\ SubSeq(docs', 1, Len(docs)) = docs
       /\ \A i \in 1..Len(docs) : MetaOf(docs'[i]) = MetaOf(docs[i])]_vars

C21_Witness ==
    /\ upload.pc = "done"
    /\ upload.items > 0
    /\ upload.sent[1].status = 200
    /\ Len(docs) > upload.items
    /\ statsPc = "done"
    /\ \E r \in Reqs : pc[r] = "done" /\ AnswerSent(r)

\* clearCollection has returned and clearKnowledgeBase has answered 200
ClearSucceeded == clear.pc = "done" /\ clear.sent = <<ClearResponse>>

\* the handles held by the operations that are about to use one
HandlesInUse ==
    (IF upload.pc \in {"embedTexts", "add"} THEN {upload.coll} ELSE {}) \cup
    (IF cmp.pc \in {"embedTexts", "index"} THEN {cmp.coll} ELSE {}) \cup
    (IF statsPc = "count" THEN {statsColl} ELSE {})

\* C23: every operation holds a handle it has fetched itself before it uses
\* one; once clearCollection has succeeded the collection exists and stays
\* the same one, every handle fetched from then on is a handle of it, and
\* getCollectionStats counts 0 as long as nothing has been added.
C23_RefetchAfterClear ==
    /\ [](0 \notin HandlesInUse)
    /\ [](ClearSucceeded => collExists)
    /\ [][ClearSucceeded =>
            /\ collExists' /\ collId' = collId
            /\ upload'.coll # upload.coll => upload'.coll = collId
            /\ cmp'.coll # cmp.coll => cmp'.coll = collId
            /\ statsColl' # statsColl => statsColl' = collId
            /\ (statsPc = "count" /\ statsPc' = "done" /\ docs = <<>>) =>
                  statsSent'[Len(statsSent')].count = 0]_vars

\* after a successful clear, the three other requests have fetched their
\* handles and gone on: stats has answered, the upload has stored its batch
C23_Witness ==
    /\ ClearSucceeded
    /\ statsPc = "done" /\ ~statsFailed
    /\ upload.pc = "done" /\ upload.sent[1].status = 200
    /\ upload.coll = collId /\ statsColl = collId /\ collId > 1
    /\ cmp.pc = "done" /\ cmp.coll = collId

\* the await at which an operation that has entered getCollection waits
EntersGetCollection(from, to) ==
    from # to /\ to \notin {"done", from} =>
        to = (IF isInitialized THEN "getcoll" ELSE "init")

\* C27: isInitialized is set only by a step in which getOrCreateCollection
\* has succeeded and is never reset; an operation that enters getCollection
\* while it is not set awaits initializeCollection itself; and an operation
\* that has got past initialisation holds a handle of the existing, named
\* collection when it uses one.
C27_InitSafe ==
    /\ [][/\ isInitialized => isInitialized'
          /\ (~isInitialized /\ isInitialized') =>
                (collExists' /\ collection' = collId')
          /\ \A r \in Reqs : pc[r] = "embed" => EntersGetCollection(pc[r], pc'[r])
          /\ statsPc = "idle" => EntersGetCollection(statsPc, statsPc')
          /\ upload.pc \in {"process", "read"} =>
                EntersGetCollection(upload.pc, upload'.pc)]_vars
    /\ [](\A r \in Reqs : pc[r] \in {"getcoll", "index"} => isInitialized)
    /\ [](statsPc \in {"getcoll", "count"} => isInitialized)
    /\ [](upload.pc \in {"getcoll", "embedTexts", "add"} => isInitialized)
    /\ [](\A r \in Reqs : pc[r] = "index" => (collExists /\ collection = collId))
    /\ [](statsPc = "count" => (collExists /\ statsColl = collId))
    /\ [](upload.pc \in {"embedTexts", "add"} => (collExists /\ upload.coll = collId))

\* the constructor's initialisation has failed and the three requests have
\* each got through: the query after its own initializeCollection
C27_Witness ==
    /\ ctorPc = "failed"
    /\ isInitialized
    /\ \E r \in Reqs : Returned(r, "initializeCollection") /\ AnswerSent(r)
    /\ statsPc = "done" /\ ~statsFailed
    /\ upload.pc = "done" /\ upload.items > 0 /\ upload.sent[1].status = 200

====
